---- MODULE Spec2Model ----
(***************************************************************************)
(* Client-side cryptographic orchestration of the signature service:       *)
(*   - lib/crypto.ts  : digest policy and decimal fingerprint encoding     *)
(*   - lib/api.ts     : catalog client (getAlgorithms, getCurves) and the  *)
(*                      sign / verify calls                                *)
(*   - sign and verify pages : the algorithm -> curve resolver             *)
(* Strings the code edits or compares character by character (digest      *)
(* names, hex and decimal renderings) are sequences of one-character       *)
(* strings; identifiers that are only compared for equality are strings.   *)
(***************************************************************************)
EXTENDS Integers, Sequences, FiniteSets, TLC

(***************************************************************************)
(* Bounds of the model.                                                    *)
(***************************************************************************)
MaxDigestLen == 2
MaxFetches == 3
MaxPageFetches == 2
MaxSubmits == 1
MaxSignSubmits == 2
MaxLogins == 3

(***************************************************************************)
(* Digest names, as character sequences.                                   *)
(***************************************************************************)
SHA1 == <<"S", "H", "A", "-", "1">>
SHA256 == <<"S", "H", "A", "-", "2", "5", "6">>
SHA384 == <<"S", "H", "A", "-", "3", "8", "4">>
SHA512 == <<"S", "H", "A", "-", "5", "1", "2">>
NoHint == << >>

\* Hints a catalog entry may carry in parameters.hash_algorithm: the compact
\* spelling, the hyphenated spelling, and none.
HintValues ==
  { NoHint,
    <<"S", "H", "A", "2", "5", "6">>,
    <<"S", "H", "A", "3", "8", "4">>,
    <<"S", "H", "A", "5", "1", "2">>,
    SHA256, SHA384, SHA512 }

\* curveParameters: null/undefined (defined = FALSE) or an object whose
\* hash_algorithm is a string ("" and a missing key are both falsy).
NoParameters == [defined |-> FALSE, hash_algorithm |-> NoHint]
Parameters(h) == [defined |-> TRUE, hash_algorithm |-> h]
ParameterMaps == {NoParameters} \cup {Parameters(h) : h \in HintValues}

(***************************************************************************)
(* lib/crypto.ts                                                           *)
(***************************************************************************)
DEFAULT_HASH_ALGORITHMS ==
  [n \in {"secp256k1", "secp256r1", "P-256", "P-384", "P-521", "ed25519",
          "rsa-2048", "rsa-4096"} |->
     CASE n = "P-384" -> SHA384
       [] n \in {"P-521", "ed25519"} -> SHA512
       [] OTHER -> SHA256]

\* String.prototype.replace(pat, rep) with a string pattern: the first
\* occurrence only.
Replace(s, pat, rep) ==
  LET hits == {i \in 1..(Len(s) - Len(pat) + 1) :
                 SubSeq(s, i, i + Len(pat) - 1) = pat}
  IN IF hits = {} THEN s
     ELSE LET i == CHOOSE k \in hits : \A j \in hits : k <= j
          IN SubSeq(s, 1, i - 1) \o rep \o SubSeq(s, i + Len(pat), Len(s))

getHashAlgorithmForCurve(curveName, curveParameters) ==
  IF curveParameters.defined /\ curveParameters.hash_algorithm # NoHint
    THEN Replace(curveParameters.hash_algorithm, <<"S", "H", "A">>,
                 <<"S", "H", "A", "-">>)
    ELSE IF curveName \in DOMAIN DEFAULT_HASH_ALGORITHMS
      THEN DEFAULT_HASH_ALGORITHMS[curveName]
      ELSE SHA256

HexDigits ==
  <<"0", "1", "2", "3", "4", "5", "6", "7", "8", "9", "a", "b", "c", "d",
    "e", "f">>
HexValue(c) == CHOOSE v \in 0..15 : HexDigits[v + 1] = c

\* Number.prototype.toString(16) of a byte: no leading zero.
ByteToString16(b) ==
  IF b < 16 THEN <<HexDigits[b + 1]>>
  ELSE <<HexDigits[(b \div 16) + 1], HexDigits[(b % 16) + 1]>>

\* String.prototype.padStart(2, '0')
PadStart2(s) == IF Len(s) < 2 THEN <<"0">> \o s ELSE s

RECURSIVE JoinHex(_)
JoinHex(hashArray) ==
  IF hashArray = << >> THEN << >>
  ELSE PadStart2(ByteToString16(Head(hashArray))) \o JoinHex(Tail(hashArray))

RECURSIVE JoinHexNoPad(_)
JoinHexNoPad(hashArray) ==
  IF hashArray = << >> THEN << >>
  ELSE ByteToString16(Head(hashArray)) \o JoinHexNoPad(Tail(hashArray))

\* BigInt('0x' + hex): the hex digits read most significant first.
RECURSIVE BigIntOfHex(_)
BigIntOfHex(hex) ==
  IF hex = << >> THEN 0
  ELSE BigIntOfHex(SubSeq(hex, 1, Len(hex) - 1)) * 16 + HexValue(hex[Len(hex)])

\* BigInt.prototype.toString(): base 10, no sign for a non-negative value, no
\* leading zeros, "0" for zero.
RECURSIVE BigIntToString(_)
BigIntToString(v) ==
  IF v < 10 THEN <<HexDigits[v + 1]>>
  ELSE BigIntToString(v \div 10) \o <<HexDigits[(v % 10) + 1]>>

RECURSIVE Reverse(_)
Reverse(s) == IF s = << >> THEN << >> ELSE Reverse(Tail(s)) \o <<Head(s)>>

hashToDecimalString_LittleEndian(buffer) ==
  BigIntToString(BigIntOfHex(JoinHex(Reverse(buffer))))

hashToDecimalString_NoPad(buffer) ==
  BigIntToString(BigIntOfHex(JoinHexNoPad(buffer)))

hashToDecimalString(buffer) == BigIntToString(BigIntOfHex(JoinHex(buffer)))

(***************************************************************************)
(* Inputs of the pure-function specifications.                             *)
(***************************************************************************)
ByteValues == {0, 1, 9, 10, 15, 16, 127, 128, 255}
Buffers == UNION {[1..n -> ByteValues] : n \in 1..MaxDigestLen}

(***************************************************************************)
(* lib/api.ts: the built-in catalog.                                       *)
(***************************************************************************)
Algorithm(id, name) == [id |-> id, name |-> name]
Curve(name, algorithm_id, status, parameters) ==
  [name |-> name, algorithm_id |-> algorithm_id, status |-> status,
   parameters |-> parameters]

MOCK_ALGORITHMS ==
  <<Algorithm("algo-1", "ECDSA"), Algorithm("algo-2", "RSA"),
    Algorithm("algo-3", "EdDSA")>>

MOCK_CURVES ==
  [a \in {"algo-1", "algo-2", "algo-3"} |->
     CASE a = "algo-1" ->
            <<Curve("secp256k1", "algo-1", "enabled", NoParameters),
              Curve("P-256", "algo-1", "enabled", NoParameters),
              Curve("P-384", "algo-1", "enabled", NoParameters),
              Curve("P-521", "algo-1", "enabled", NoParameters)>>
       [] a = "algo-2" ->
            <<Curve("RSA-2048", "algo-2", "enabled", NoParameters),
              Curve("RSA-3072", "algo-2", "enabled", NoParameters),
              Curve("RSA-4096", "algo-2", "enabled", NoParameters)>>
       [] a = "algo-3" ->
            <<Curve("Ed25519", "algo-3", "enabled", NoParameters)>>]

\* The keys of MOCK_CURVES in the order `for (const algoKey in MOCK_CURVES)`
\* visits them.
MOCK_CURVES_KEYS == <<"algo-1", "algo-2", "algo-3">>

(***************************************************************************)
(* The remote catalog service: what the three GET endpoints may answer.    *)
(* A response is a failure (transport error, non-2xx status or a body that *)
(* is not JSON: handleFetchResponse throws) or a parsed body.              *)
(***************************************************************************)
\* GET /algorithms: a bare array, an object with items and/or algorithms, or
\* some other JSON value.
AlgorithmsBody(kind, array, hasItems, items, hasAlgorithms, algorithms) ==
  [kind |-> kind, array |-> array, hasItems |-> hasItems, items |-> items,
   hasAlgorithms |-> hasAlgorithms, algorithms |-> algorithms]

\* The server lists its algorithms in its own order.
LiveAlgorithms ==
  <<Algorithm("algo-2", "RSA"), Algorithm("algo-1", "ECDSA"),
    Algorithm("algo-3", "EdDSA")>>

AlgorithmsResponses ==
  { AlgorithmsBody("fail", << >>, FALSE, << >>, FALSE, << >>),
    AlgorithmsBody("null", << >>, FALSE, << >>, FALSE, << >>),
    AlgorithmsBody("array", LiveAlgorithms, FALSE, << >>, FALSE, << >>),
    AlgorithmsBody("array", << >>, FALSE, << >>, FALSE, << >>),
    AlgorithmsBody("object", << >>, TRUE, LiveAlgorithms, FALSE, << >>),
    AlgorithmsBody("object", << >>, FALSE, << >>, TRUE, LiveAlgorithms),
    AlgorithmsBody("object", << >>, TRUE, << >>, TRUE, LiveAlgorithms),
    AlgorithmsBody("object", << >>, FALSE, << >>, FALSE, << >>) }

\* The curves the server holds per algorithm name, as the per-algorithm
\* detail endpoint nests them: name, status ("" when the field is absent)
\* and parameters.
RawCurve(name, status, parameters) ==
  [name |-> name, status |-> status, parameters |-> parameters]

RemoteCurves(algorithmName) ==
  CASE algorithmName = "ECDSA" ->
         <<RawCurve("secp256k1", "disabled", NoParameters),
           RawCurve("P-256", "enabled",
                    Parameters(<<"S", "H", "A", "3", "8", "4">>)),
           RawCurve("P-384", "", Parameters(NoHint))>>
    [] algorithmName = "RSA" ->
         <<RawCurve("RSA-2048", "enabled", NoParameters),
           RawCurve("RSA-4096", "disabled", NoParameters)>>
    [] algorithmName = "EdDSA" ->
         <<RawCurve("Ed25519", "enabled",
                    Parameters(<<"S", "H", "A", "5", "1", "2">>))>>
    [] OTHER -> << >>

\* GET /algorithms/{name}: failure, a body without a curves array, or a body
\* whose curves array is the server's list or empty.
DetailsBody(kind, curves) == [kind |-> kind, curves |-> curves]

DetailsResponses(algorithmName) ==
  { DetailsBody("fail", << >>), DetailsBody("nocurves", << >>),
    DetailsBody("curves", << >>),
    DetailsBody("curves", RemoteCurves(algorithmName)) }

NameOfAlgorithm(algorithmId) ==
  LET hits == {i \in 1..Len(LiveAlgorithms) :
                 LiveAlgorithms[i].id = algorithmId}
  IN IF hits = {} THEN "" ELSE LiveAlgorithms[CHOOSE i \in hits : TRUE].name

\* GET /curves?algorithm_id=X&status=enabled: the server applies both
\* filters of the query and answers with full Curve records.
RemoteFlatCurves(algorithmId) ==
  LET raw == RemoteCurves(NameOfAlgorithm(algorithmId))
      IsEnabled(c) == c.status # "disabled"
      kept == SelectSeq(raw, IsEnabled)
  IN [i \in 1..Len(kept) |->
        Curve(kept[i].name, algorithmId,
              IF kept[i].status = "" THEN "enabled" ELSE kept[i].status,
              kept[i].parameters)]

FlatBody(kind, curves) == [kind |-> kind, curves |-> curves]

FlatResponses(algorithmId) ==
  { FlatBody("fail", << >>), FlatBody("other", << >>),
    FlatBody("object", << >>), FlatBody("array", << >>),
    FlatBody("object", RemoteFlatCurves(algorithmId)),
    FlatBody("array", RemoteFlatCurves(algorithmId)) }

(***************************************************************************)
(* lib/api.ts: the catalog client.                                         *)
(***************************************************************************)
\* The fallback log lines: 'Using mock algorithm data' and 'Using mock curve
\* data', each also written with the suffix ' due to API error'.
AlgorithmFallbackLog == "Using mock algorithm data"
CurveFallbackLog == "Using mock curve data"

\* getAlgorithms without its fallbacks: an empty list where the built-in one
\* is due.
getAlgorithms_NoFallback(resp) ==
  [result |-> IF resp.kind = "object" /\ resp.hasItems THEN resp.items
              ELSE IF resp.kind = "array" THEN resp.array
              ELSE IF resp.kind = "object" /\ resp.hasAlgorithms
                THEN resp.algorithms
              ELSE << >>,
   fallback |-> FALSE, threw |-> FALSE, logs |-> {}]

\* getAlgorithms, given the answer to GET /algorithms. fallback tells whether
\* the built-in list was returned (the 'Using mock algorithm data' log lines),
\* threw whether the call ended in an exception: its catch block returns.
getAlgorithms(resp) ==
  IF resp.kind = "fail"
    THEN [result |-> MOCK_ALGORITHMS, fallback |-> TRUE, threw |-> FALSE,
          logs |-> {AlgorithmFallbackLog}]
  ELSE LET result ==
             IF resp.kind = "object" /\ resp.hasItems THEN resp.items
             ELSE IF resp.kind = "array" THEN resp.array
             ELSE IF resp.kind = "object" /\ resp.hasAlgorithms
               THEN resp.algorithms
             ELSE << >>
       IN IF Len(result) = 0
            THEN [result |-> MOCK_ALGORITHMS, fallback |-> TRUE,
                  threw |-> FALSE, logs |-> {AlgorithmFallbackLog}]
            ELSE [result |-> result, fallback |-> FALSE, threw |-> FALSE,
                  logs |-> {}]

\* algorithms.find(a => a.id === algorithmId): the first match, or none.
FindAlgorithm(algorithms, algorithmId) ==
  LET hits == {i \in 1..Len(algorithms) : algorithms[i].id = algorithmId}
  IN IF hits = {} THEN Algorithm("", "")
     ELSE algorithms[CHOOSE i \in hits : \A j \in hits : i <= j]

\* The mapping of the nested curves of an algorithm's details.
MapNestedCurves(rawCurves, algorithmId) ==
  [i \in 1..Len(rawCurves) |->
     Curve(rawCurves[i].name, algorithmId,
           IF rawCurves[i].status = "" THEN "enabled"
           ELSE rawCurves[i].status,
           rawCurves[i].parameters)]

MockCurvesOrEmpty_Silent(algorithmId) ==
  IF algorithmId # "" /\ algorithmId \in DOMAIN MOCK_CURVES
    THEN [curves |-> MOCK_CURVES[algorithmId], source |-> "mock",
          threw |-> FALSE, logs |-> {}]
    ELSE [curves |-> << >>, source |-> "none", threw |-> FALSE,
          logs |-> {}]

\* The tail of getCurves and its catch block: the built-in curves of the
\* algorithm, announced by a 'Using mock curve data' log line, or [].
MockCurvesOrEmpty(algorithmId) ==
  IF algorithmId # "" /\ algorithmId \in DOMAIN MOCK_CURVES
    THEN [curves |-> MOCK_CURVES[algorithmId], source |-> "mock",
          threw |-> FALSE, logs |-> {CurveFallbackLog}]
    ELSE [curves |-> << >>, source |-> "none", threw |-> FALSE,
          logs |-> {}]

\* The log lines of a call together with those of the calls it made before.
AfterLogs(earlier, got) == [got EXCEPT !.logs = earlier \cup @]

\* getCurves with an outer catch block that rethrows.
getCurves_Rethrows(algorithmId, net) ==
  LET listed == getAlgorithms(net.algorithms)
      algorithm == FindAlgorithm(listed.result, algorithmId)
      earlier == IF algorithmId # "" THEN listed.logs ELSE {}
      rethrown == [curves |-> << >>, source |-> "none", threw |-> TRUE,
                   logs |-> earlier]
  IN IF algorithmId # "" /\ algorithm.name # ""
        /\ net.details.kind = "curves"
       THEN [curves |-> MapNestedCurves(net.details.curves, algorithmId),
             source |-> "nested", threw |-> FALSE, logs |-> earlier]
     ELSE IF net.flat.kind = "fail" THEN rethrown
     ELSE IF net.flat.kind \in {"object", "array"}
             /\ (Len(net.flat.curves) > 0 \/ algorithmId = "")
       THEN [curves |-> net.flat.curves, source |-> "flat", threw |-> FALSE,
             logs |-> earlier]
     ELSE IF algorithmId = ""
       THEN [curves |-> << >>, source |-> "flat", threw |-> FALSE,
             logs |-> earlier]
     ELSE AfterLogs(earlier, MockCurvesOrEmpty(algorithmId))

\* getCurves(algorithmId) given the answers of the requests it issues:
\* net.algorithms to GET /algorithms, net.details to GET /algorithms/{name},
\* net.flat to GET /curves. algorithmId = "" is the call without an id.
\* threw tells whether the call ended in an exception: the inner catch
\* blocks fall through and the outer one returns. logs holds the fallback
\* log lines written during the call, those of its getAlgorithms call
\* included.
getCurves(algorithmId, net) ==
  IF algorithmId # "" THEN
    LET listed == getAlgorithms(net.algorithms)
        algorithm == FindAlgorithm(listed.result, algorithmId)
    IN IF algorithm.name # "" /\ net.details.kind = "curves"
         THEN [curves |-> MapNestedCurves(net.details.curves, algorithmId),
               source |-> "nested", threw |-> FALSE, logs |-> listed.logs]
         ELSE IF net.flat.kind = "fail"
           THEN AfterLogs(listed.logs, MockCurvesOrEmpty(algorithmId))
         ELSE IF net.flat.kind \in {"object", "array"}
                 /\ Len(net.flat.curves) > 0
           THEN [curves |-> net.flat.curves, source |-> "flat",
                 threw |-> FALSE, logs |-> listed.logs]
         ELSE AfterLogs(listed.logs, MockCurvesOrEmpty(algorithmId))
  ELSE IF net.flat.kind = "fail"
    THEN [curves |-> << >>, source |-> "none", threw |-> FALSE, logs |-> {}]
  ELSE IF net.flat.kind \in {"object", "array"}
    THEN [curves |-> net.flat.curves, source |-> "flat", threw |-> FALSE,
          logs |-> {}]
  ELSE [curves |-> << >>, source |-> "flat", threw |-> FALSE, logs |-> {}]

\* The answers one getCurves(algorithmId) call can meet: the details are
\* those of the algorithm that the client asks for by name.
ServerNets(algorithmId) ==
  UNION { { [algorithms |-> a, details |-> d, flat |-> f] :
              d \in DetailsResponses(
                      FindAlgorithm(getAlgorithms(a).result,
                                    algorithmId).name),
              f \in FlatResponses(algorithmId) } :
          a \in AlgorithmsResponses }

\* What getCurves can return per algorithm id, over all those answers.
AlgorithmIds == {"algo-1", "algo-2", "algo-3"}
GetCurvesOutcomes ==
  [id \in AlgorithmIds \cup {""} |->
     {getCurves(id, net) : net \in ServerNets(id)}]

(***************************************************************************)
(* lib/api.ts: signDocument / verifyDocument, up to the POST.              *)
(***************************************************************************)
\* The curve-parameter lookup of signDocument and verifyDocument: the first
\* built-in curve of that name that has parameters, else null.
RECURSIVE LookupMockParameters(_, _)
LookupMockParameters(keys, curveName) ==
  IF keys = << >> THEN NoParameters
  ELSE LET curvesOfKey == MOCK_CURVES[Head(keys)]
           hits == {i \in 1..Len(curvesOfKey) :
                      curvesOfKey[i].name = curveName}
           curve == curvesOfKey[CHOOSE i \in hits : \A j \in hits : i <= j]
       IN IF hits # {} /\ curve.parameters.defined
            THEN curve.parameters
            ELSE LookupMockParameters(Tail(keys), curveName)

\* The algorithm-name lookup of verifyDocument: from getAlgorithms, else from
\* the built-in list, else "ECDSA". Its catch block logs and goes on.
verifyAlgorithmName(resp, algorithmId) ==
  LET found == FindAlgorithm(getAlgorithms(resp).result, algorithmId)
      mockAlgo == FindAlgorithm(MOCK_ALGORITHMS, algorithmId)
  IN [name |-> IF found.name # "" THEN found.name
               ELSE IF mockAlgo.name # "" THEN mockAlgo.name ELSE "ECDSA",
      threw |-> FALSE]

\* crypto.subtle.digest: the digests the platform provides, and an abstract
\* digest value (two bytes standing for the raw digest of a document).
SupportedDigests == {SHA1, SHA256, SHA384, SHA512}
\* crypto.subtle exists in secure contexts only: where it is missing, every
\* digest call throws.
Platforms == {SupportedDigests, {}}
Documents == {"hello", "world"}
DigestBytes(hashAlgorithm, document) ==
  << (CASE hashAlgorithm = SHA1 -> 1 [] hashAlgorithm = SHA256 -> 0
        [] hashAlgorithm = SHA384 -> 38 [] OTHER -> 251),
     (IF document = "hello" THEN 7 ELSE 200) >>

\* calculateDocumentHash(document, curveName, curveParameters, true) on a
\* platform that provides the given digests: ok is false when
\* crypto.subtle.digest throws.
calculateDocumentHash(document, curveName, curveParameters, platform) ==
  LET hashAlgorithm == getHashAlgorithmForCurve(curveName, curveParameters)
  IN IF hashAlgorithm \in platform
       THEN [ok |-> TRUE, hashAlgorithm |-> hashAlgorithm,
             value |-> hashToDecimalString(DigestBytes(hashAlgorithm,
                                                        document))]
       ELSE [ok |-> FALSE, hashAlgorithm |-> hashAlgorithm, value |-> << >>]

\* The characters of a document.
Text(document) ==
  IF document = "hello" THEN <<"h", "e", "l", "l", "o">>
  ELSE <<"w", "o", "r", "l", "d">>

\* signDocument putting the document itself where the fingerprint belongs.
signFingerprint_SendsDocument(document, curveName, platform) ==
  LET hash == calculateDocumentHash(document, curveName,
                                    LookupMockParameters(MOCK_CURVES_KEYS,
                                                         curveName),
                                    platform)
  IN IF hash.ok THEN [hash EXCEPT !.value = Text(document)] ELSE hash

\* The fingerprint signDocument computes: parameters from the built-in
\* table, then calculateDocumentHash.
signFingerprint(document, curveName, platform) ==
  calculateDocumentHash(document, curveName,
                        LookupMockParameters(MOCK_CURVES_KEYS, curveName),
                        platform)

\* verifyDocument hashing under the default digest whatever the curve.
verifyFingerprint_IgnoresCurve(document, curveName, platform) ==
  calculateDocumentHash(document, "", NoParameters, platform)

\* The fingerprint verifyDocument computes, by its own copy of those lines.
verifyFingerprint(document, curveName, platform) ==
  calculateDocumentHash(document, curveName,
                        LookupMockParameters(MOCK_CURVES_KEYS, curveName),
                        platform)

(***************************************************************************)
(* lib/errors.ts: the error normalizer.                                    *)
(***************************************************************************)
\* A response body: text that is not JSON, the JSON value null, or a JSON
\* object with or without a message.
Body(kind, hasMessage, message) ==
  [kind |-> kind, hasMessage |-> hasMessage, message |-> message]
UnparsableBody == Body("unparsable", FALSE, "")

\* What fetch resolves to (transport "ok") or that it rejects ("fail").
Response(transport, status, body) ==
  [transport |-> transport, status |-> status, body |-> body]

ServerMessages == {"", "Signature is malformed"}
Bodies ==
  {UnparsableBody, Body("null", FALSE, ""), Body("object", FALSE, "")}
    \cup {Body("object", TRUE, m) : m \in ServerMessages}
ErrorStatuses == {400, 401, 403, 404, 422, 429, 500, 502, 503}
Responses ==
  {Response("fail", 0, UnparsableBody)}
    \cup {Response("ok", st, b) : st \in ErrorStatuses, b \in Bodies}
    \cup {Response("ok", 200, b) :
            b \in {UnparsableBody, Body("object", FALSE, "")}}

\* new ApiError(message, status, data), and the errors of other types that
\* fetch, response.json() and property access throw.
ApiError(message, status, data) ==
  [type |-> "ApiError", message |-> message, status |-> status,
   data |-> data]
OtherError(type, message) ==
  [type |-> type, message |-> message, status |-> 0,
   data |-> Body("null", FALSE, "")]
NoError == OtherError("none", "")

handleFetchResponse(response) ==
  IF response.status \notin 200..299 THEN
    LET errorData ==
          IF response.body.kind = "unparsable"
            THEN Body("object", TRUE, "An error occurred")
            ELSE response.body
    IN IF errorData.kind = "null"
         THEN [threw |-> TRUE,
               error |-> OtherError("TypeError",
                                    "Cannot read properties of null")]
         ELSE [threw |-> TRUE,
               error |->
                 ApiError(IF errorData.hasMessage /\ errorData.message # ""
                            THEN errorData.message
                            ELSE "API error: " \o ToString(response.status),
                          response.status, errorData)]
  ELSE IF response.body.kind = "unparsable"
    THEN [threw |-> TRUE,
          error |-> OtherError("SyntaxError", "Unexpected token")]
  ELSE [threw |-> FALSE, error |-> NoError]

\* `await fetch(...)` followed by handleFetchResponse, as every method of
\* apiService does, whose catch block logs and rethrows.
fetchAndHandle(response) ==
  IF response.transport = "fail"
    THEN [threw |-> TRUE, error |-> OtherError("TypeError", "Failed to fetch")]
    ELSE handleFetchResponse(response)

getErrorMessage(err) ==
  IF err.type = "ApiError" THEN
    LET dataMessage ==
          IF err.data.hasMessage THEN err.data.message ELSE ""
    IN CASE err.status = 400 ->
              IF dataMessage # "" THEN dataMessage
              ELSE "Invalid request. Please check your input."
         [] err.status = 401 -> "Authentication required. Please log in."
         [] err.status = 403 ->
              "You do not have permission to perform this action."
         [] err.status = 404 -> "The requested resource was not found."
         [] err.status = 422 ->
              IF dataMessage # "" THEN dataMessage
              ELSE "Validation failed. Please check your input."
         [] err.status = 429 -> "Too many requests. Please try again later."
         [] err.status = 500 -> "Server error. Please try again later."
         [] OTHER -> IF err.message # "" THEN err.message
                     ELSE "An unexpected error occurred."
  ELSE IF err.message = "Failed to fetch"
    THEN "Network error. Please check your connection."
  ELSE err.message

(***************************************************************************)
(* lib/api.ts and the verify page: the body of a successful POST /verify.  *)
(***************************************************************************)
\* A field that the JSON body does not have (undefined in the code).
Absent == "absent"

MetaData(document, public_key, curve_name, bit_size, verification_id, verification_time) ==
  [present |-> TRUE, document |-> document, public_key |-> public_key,
   curve_name |-> curve_name, bit_size |-> bit_size,
   verification_id |-> verification_id,
   verification_time |-> verification_time]
NoMetaData ==
  [present |-> FALSE, document |-> Absent, public_key |-> Absent,
   curve_name |-> Absent, bit_size |-> 0, verification_id |-> Absent,
   verification_time |-> Absent]

\* The body: the canonical envelope has verification and meta_data, the
\* legacy one is_valid and flat fields; a body may carry any mix of them.
VerifyData(verification, is_valid, document_hash, verification_id, verification_time, meta_data) ==
  [verification |-> verification, is_valid |-> is_valid,
   document_hash |-> document_hash, verification_id |-> verification_id,
   verification_time |-> verification_time, meta_data |-> meta_data]

ServerMetaData == MetaData("999", "pub9", "P-384", 384, "v9", Absent)
VerifyBodies ==
  { VerifyData(v, i, h, id, t, m) :
      v \in {Absent, "true", "false"}, i \in {Absent, "true", "false"},
      h \in {Absent, "", "123"}, id \in {Absent, "v1"},
      t \in {Absent, "t1"}, m \in {NoMetaData, ServerMetaData} }

\* `a || b` on strings: b when a is undefined or empty.
OrElse(a, b) == IF a \in {Absent, ""} THEN b ELSE a

\* reconcileVerify that never takes the server's document_hash.
reconcileVerify_LocalFingerprintOnly(data, hashedDocument, publicKey, curve) ==
  IF data.verification = Absent /\ data.is_valid # Absent
    THEN VerifyData(data.is_valid, Absent, Absent, Absent, Absent,
                    MetaData(hashedDocument, publicKey, curve, 256,
                             data.verification_id, data.verification_time))
    ELSE data

\* reconcileVerify with the legacy field first.
reconcileVerify_PrefersLegacy(data, hashedDocument, publicKey, curve) ==
  IF data.is_valid # Absent
    THEN VerifyData(data.is_valid, Absent, Absent, Absent, Absent,
                    MetaData(OrElse(data.document_hash, hashedDocument),
                             publicKey, curve, 256, data.verification_id,
                             data.verification_time))
    ELSE data

\* The tail of verifyDocument: a body without verification and with
\* is_valid is mapped to the canonical shape, any other body is returned as
\* it is.
reconcileVerify(data, hashedDocument, publicKey, curve) ==
  IF data.verification = Absent /\ data.is_valid # Absent
    THEN VerifyData(data.is_valid, Absent, Absent, Absent, Absent,
                    MetaData(OrElse(data.document_hash, hashedDocument),
                             publicKey, curve, 256, data.verification_id,
                             data.verification_time))
    ELSE data

\* new Date().toISOString() at the time the page stores the result.
Now == "2026-01-01T00:00:00.000Z"

NoVerificationResult ==
  [threw |-> FALSE, set |-> FALSE, isValid |-> Absent,
   documentHash |-> Absent, publicKey |-> Absent, curveName |-> Absent,
   bitSize |-> 0, verificationId |-> Absent, verificationTime |-> Absent]

\* setVerificationResult({...}) of handleVerify: reading a field of a
\* missing meta_data throws, which its catch block turns into the error.
verificationResultOf(response) ==
  IF ~response.meta_data.present
    THEN [NoVerificationResult EXCEPT !.threw = TRUE]
    ELSE [threw |-> FALSE, set |-> TRUE, isValid |-> response.verification,
          documentHash |-> response.meta_data.document,
          publicKey |-> response.meta_data.public_key,
          curveName |-> response.meta_data.curve_name,
          bitSize |-> response.meta_data.bit_size,
          verificationId |-> response.meta_data.verification_id,
          verificationTime |->
            OrElse(response.meta_data.verification_time, Now)]

(***************************************************************************)
(* State.                                                                  *)
(*   page                 which page is mounted: "sign" or "verify"        *)
(*   algorithms .. isLoadingCurves   the useState cells of the page        *)
(*   inflight             the pending getCurves promises, each with the    *)
(*                        algorithmId its closure captured                 *)
(*   isSubmitting, post, result, error   isSigning / isVerifying, the POST *)
(*                        of signDocument / verifyDocument, signResult /   *)
(*                        verificationResult, error                        *)
(*   nextFetch, submits   counters that bound the run                      *)
(*   events, lastGetCurves, lastSubmit   history of the run                *)
(*   policy, encode       the inputs and outputs of the pure functions of  *)
(*                        lib/crypto.ts                                    *)
(*   fingerprint          one document and curve, and the fingerprints     *)
(*                        signDocument and verifyDocument compute for it   *)
(*   catalog              one call of getAlgorithms or getCurves: the      *)
(*                        answers of the server and what the call returns  *)
(*   normalize            one response, the error handleFetchResponse      *)
(*                        throws for it and the text getErrorMessage shows *)
(*   envelope             one body of a successful POST /verify, what      *)
(*                        verifyDocument returns for it and what the page  *)
(*                        shows                                            *)
(*   auth                 the auth context: the token in localStorage, the *)
(*                        user, isLoading, and how far checkAuth, login    *)
(*                        and logout have run                              *)
(***************************************************************************)
VARIABLES page, algorithms, algorithmId, curveName, curves,
          isLoadingAlgorithms, isLoadingCurves, inflight, nextFetch, events,
          lastGetCurves, isSubmitting, post, result, error, submits,
          lastSubmit, policy, encode, fingerprint, catalog, normalize,
          envelope, auth

pageVars ==
  <<page, algorithms, algorithmId, curveName, curves, isLoadingAlgorithms,
    isLoadingCurves, inflight, nextFetch, events, lastGetCurves>>
submitVars == <<isSubmitting, post, result, error, submits, lastSubmit>>
pureVars ==
  <<policy, encode, fingerprint, catalog, normalize, envelope, auth>>
vars == <<pageVars, submitVars, pureVars>>

NoGetCurves ==
  [called |-> FALSE, algorithmId |-> "", source |-> "", curves |-> << >>]
NoPost ==
  [status |-> "none", endpoint |-> "", document |-> << >>,
   private_key |-> "", signature |-> "", public_key |-> "",
   algorithm_name |-> "", curve_name |-> "", thrown |-> NoError,
   sent |-> 0, moved |-> FALSE]
NoSubmit ==
  [done |-> FALSE, hasCurve |-> FALSE, curveParameters |-> NoParameters,
   hashAlgorithm |-> << >>, hashOk |-> FALSE, requests |-> << >>,
   document |-> ""]
PolicyIdle ==
  [pc |-> "idle", curveName |-> "", curveParameters |-> NoParameters,
   hashAlgorithm |-> << >>]
EncodeIdle == [pc |-> "idle", buffer |-> << >>, decimal |-> << >>]
NoFingerprint ==
  [done |-> FALSE, ok |-> FALSE, hashAlgorithm |-> << >>, value |-> << >>]
FingerprintIdle ==
  [pc |-> "idle", document |-> "", curveName |-> "",
   sign |-> NoFingerprint, verify |-> NoFingerprint]
NoNet ==
  [algorithms |-> [kind |-> "none"], details |-> [kind |-> "none"],
   flat |-> [kind |-> "none"]]
NoCall == [done |-> FALSE]
CatalogIdle ==
  [pc |-> "idle", algorithmId |-> "", net |-> NoNet, algorithms |-> NoCall,
   curves |-> NoCall, name |-> NoCall, again |-> NoCall]
NoVerifyData ==
  VerifyData(Absent, Absent, Absent, Absent, Absent, NoMetaData)
EnvelopeIdle ==
  [pc |-> "idle", data |-> NoVerifyData, hashedDocument |-> "",
   publicKey |-> "", curveName |-> "", response |-> NoVerifyData,
   shown |-> NoVerificationResult]
AuthIdle ==
  [token |-> "", user |-> "none", isLoading |-> FALSE, checkAuth |-> "idle",
   login |-> "idle", logout |-> "idle", logins |-> 0]
NormalizeIdle ==
  [pc |-> "idle", response |-> Response("none", 0, UnparsableBody),
   error |-> NoError, text |-> ""]

InitPage ==
  /\ page \in {"sign", "verify"}
  /\ algorithms = << >>
  /\ algorithmId = ""
  /\ curveName = ""
  /\ curves = << >>
  /\ isLoadingAlgorithms = TRUE
  /\ isLoadingCurves = FALSE
  /\ inflight = {}
  /\ nextFetch = 1
  /\ events = << >>
  /\ lastGetCurves = NoGetCurves
  /\ isSubmitting = FALSE
  /\ post = NoPost
  /\ result = "none"
  /\ error = ""
  /\ submits = 0
  /\ lastSubmit = NoSubmit

\* Each specification below runs one part of the program; the variables of
\* the other parts stay idle.
IdleExcept(part) ==
  /\ part = "policy" \/ policy = PolicyIdle
  /\ part = "encode" \/ encode = EncodeIdle
  /\ part = "fingerprint" \/ fingerprint = FingerprintIdle
  /\ part = "catalog" \/ catalog = CatalogIdle
  /\ part = "normalize" \/ normalize = NormalizeIdle
  /\ part = "envelope" \/ envelope = EnvelopeIdle
  /\ part = "auth" \/ auth = AuthIdle

Init == InitPage /\ IdleExcept("page")

(***************************************************************************)
(* The pages: the algorithm -> curve resolver.                             *)
(***************************************************************************)
\* The fetchCurves effect up to its await: runs whenever algorithmId changes
\* to a non-empty id.
fetchCurves(id) ==
  /\ isLoadingCurves' = TRUE
  /\ curveName' = ""
  /\ inflight' = inflight \cup {[id |-> nextFetch, algorithmId |-> id]}
  /\ nextFetch' = nextFetch + 1
  /\ events' = Append(events, [type |-> "issue", id |-> nextFetch,
                               algorithmId |-> id])

\* The mount effect's getAlgorithms call resolves: the list is stored and its
\* first algorithm selected, which starts the first curve fetch.
FetchAlgorithmsResolve ==
  /\ isLoadingAlgorithms
  /\ \E resp \in AlgorithmsResponses :
       LET algorithmsData == getAlgorithms(resp).result
       IN /\ algorithms' = algorithmsData
          /\ algorithmId' = algorithmsData[1].id
          /\ fetchCurves(algorithmsData[1].id)
  /\ isLoadingAlgorithms' = FALSE
  /\ UNCHANGED <<page, curves, lastGetCurves, submitVars, pureVars>>

\* The user picks another algorithm in the algorithm Select (while the run
\* has issued fewer than maxFetches curve fetches).
SelectAlgorithmWithin(maxFetches) ==
  /\ ~isLoadingAlgorithms
  /\ Len(algorithms) > 0
  /\ nextFetch <= maxFetches
  /\ \E i \in 1..Len(algorithms) :
       /\ algorithms[i].id # algorithmId
       /\ algorithmId' = algorithms[i].id
       /\ fetchCurves(algorithms[i].id)
  /\ UNCHANGED <<page, algorithms, curves, isLoadingAlgorithms,
                 lastGetCurves, submitVars, pureVars>>

SelectAlgorithm == SelectAlgorithmWithin(MaxFetches)

\* A pending getCurves promise resolves and fetchCurves continues after its
\* await: setCurves, the default curve, and the finally block.
FetchCurvesResolve ==
  /\ \E f \in inflight :
       \E got \in GetCurvesOutcomes[f.algorithmId] :
         LET curvesData == got.curves
         IN /\ curves' = curvesData
            /\ curveName' = IF Len(curvesData) > 0 THEN curvesData[1].name
                            ELSE curveName
            /\ lastGetCurves' = [called |-> TRUE,
                                 algorithmId |-> f.algorithmId,
                                 source |-> got.source, curves |-> curvesData]
            /\ inflight' = inflight \ {f}
            /\ events' = Append(events, [type |-> "resolve", id |-> f.id,
                                         algorithmId |-> f.algorithmId])
  /\ isLoadingCurves' = FALSE
  /\ UNCHANGED <<page, algorithms, algorithmId, isLoadingAlgorithms,
                 nextFetch, submitVars, pureVars>>

\* The user picks a curve in the curve Select.
SelectCurve ==
  /\ ~isLoadingCurves
  /\ Len(curves) > 0
  /\ algorithmId # ""
  /\ \E i \in 1..Len(curves) :
       /\ curves[i].name # curveName
       /\ curveName' = curves[i].name
  /\ UNCHANGED <<page, algorithms, algorithmId, curves, isLoadingAlgorithms,
                 isLoadingCurves, inflight, nextFetch, events, lastGetCurves,
                 submitVars, pureVars>>

(***************************************************************************)
(* The pages: submitting a sign or a verify.                               *)
(***************************************************************************)
PrivateKeys == {"d1"}
Signatures == {"sig1"}
PublicKeys == {"pub1"}

\* The entry of the displayed curve list that the selected curve names: the
\* currently resolved Curve.
ResolvedCurve ==
  LET hits == {i \in 1..Len(curves) : curves[i].name = curveName}
  IN IF hits = {} THEN [hasCurve |-> FALSE, parameters |-> NoParameters]
     ELSE [hasCurve |-> TRUE,
           parameters |->
             curves[CHOOSE i \in hits : \A j \in hits : i <= j].parameters]

\* What a submission leaves behind once hashing has run: the POST in flight,
\* or the error of a failed hashing and no POST. earlier lists the requests
\* the call issued before it hashed.
AfterHash(document, hash, request, earlier) ==
  /\ lastSubmit' = [done |-> TRUE, document |-> document,
                    hasCurve |-> ResolvedCurve.hasCurve,
                    curveParameters |-> ResolvedCurve.parameters,
                    hashAlgorithm |-> hash.hashAlgorithm,
                    hashOk |-> hash.ok,
                    requests |-> IF hash.ok
                                   THEN Append(earlier, request.endpoint)
                                   ELSE earlier]
  /\ submits' = submits + 1
  /\ result' = "none"
  /\ IF hash.ok
       THEN /\ post' = request
            /\ isSubmitting' = TRUE
            /\ error' = ""
       ELSE /\ post' = NoPost
            /\ isSubmitting' = FALSE
            /\ error' = IF request.endpoint = "/sign"
                           THEN "Failed to hash document for signing"
                           ELSE "Failed to hash document for verification"

\* handleSign and signDocument up to the POST to /sign.
HandleSignWithin(maxSubmits) ==
  /\ page = "sign"
  /\ ~isSubmitting /\ algorithmId # "" /\ curveName # ""
  /\ submits < maxSubmits
  /\ \E document \in Documents, privateKey \in PrivateKeys,
        platform \in Platforms :
       LET hash == signFingerprint(document, curveName, platform)
       IN AfterHash(document, hash,
                    [status |-> "inflight", endpoint |-> "/sign",
                     document |-> hash.value, private_key |-> privateKey,
                     signature |-> "", public_key |-> "",
                     algorithm_name |-> "", curve_name |-> curveName,
                     thrown |-> NoError, sent |-> 1,
                     moved |-> FALSE],
                    << >>)
  /\ UNCHANGED <<pageVars, pureVars>>

HandleSign == HandleSignWithin(MaxSubmits)

\* handleVerify and verifyDocument up to the POST to /verify: the algorithm
\* name comes from getAlgorithms (a GET /algorithms, issued first), else from
\* the built-in list, else "ECDSA".
HandleVerify ==
  /\ page = "verify"
  /\ ~isSubmitting /\ algorithmId # "" /\ curveName # ""
  /\ submits < MaxSubmits
  /\ \E document \in Documents, signature \in Signatures,
        publicKey \in PublicKeys, resp \in AlgorithmsResponses,
        platform \in Platforms :
       LET algorithmName == verifyAlgorithmName(resp, algorithmId).name
           hash == verifyFingerprint(document, curveName, platform)
       IN AfterHash(document, hash,
                    [status |-> "inflight", endpoint |-> "/verify",
                     document |-> hash.value, private_key |-> "",
                     signature |-> signature, public_key |-> publicKey,
                     algorithm_name |-> algorithmName,
                     curve_name |-> curveName, thrown |-> NoError,
                     sent |-> 1, moved |-> FALSE],
                    <<"/algorithms">>)
  /\ UNCHANGED <<pageVars, pureVars>>

\* The curve selection is no longer the one the POST in flight was submitted
\* with; a completed POST keeps whether that was so when it completed.
SelectionMoved == curveName # post.curve_name

\* The answers a POST to /sign or /verify is run against.
PostResponses ==
  { Response("fail", 0, UnparsableBody),
    Response("ok", 500, UnparsableBody),
    Response("ok", 400, Body("object", TRUE, "Signature is malformed")),
    Response("ok", 200, UnparsableBody),
    Response("ok", 200, Body("object", FALSE, "")) }

\* PostResolve with a retry: a POST that failed is sent once more before the
\* failure reaches the page.
PostResolve_Retries ==
  /\ post.status = "inflight"
  /\ \E response \in PostResponses :
       LET got == fetchAndHandle(response)
       IN IF got.threw /\ post.sent < 2
            THEN /\ post' = [post EXCEPT !.sent = @ + 1]
                 /\ UNCHANGED <<result, error, isSubmitting>>
            ELSE /\ result' = IF got.threw THEN result ELSE "set"
                 /\ error' = IF got.threw THEN getErrorMessage(got.error)
                             ELSE error
                 /\ post' = [post EXCEPT !.status = "done",
                                         !.thrown = got.error,
                                         !.moved = SelectionMoved]
                 /\ isSubmitting' = FALSE
  /\ UNCHANGED <<pageVars, submits, lastSubmit, pureVars>>

\* PostResolve with a supersession check: a POST that completes after the
\* curve selection has changed is dropped without a trace on the page.
PostResolve_DropsIfChanged ==
  /\ post.status = "inflight"
  /\ \E response \in PostResponses :
       LET got == fetchAndHandle(response)
           superseded == SelectionMoved
       IN /\ result' = IF got.threw \/ superseded THEN result ELSE "set"
          /\ error' = IF got.threw /\ ~superseded
                        THEN getErrorMessage(got.error) ELSE error
          /\ post' = [post EXCEPT !.status = "done", !.thrown = got.error,
                                  !.moved = SelectionMoved]
  /\ isSubmitting' = FALSE
  /\ UNCHANGED <<pageVars, submits, lastSubmit, pureVars>>

\* PostResolve without the finally block: after a failed POST the
\* in-progress flag stays set.
PostResolve_NoFinally ==
  /\ post.status = "inflight"
  /\ \E response \in PostResponses :
       LET got == fetchAndHandle(response)
       IN /\ result' = IF got.threw THEN result ELSE "set"
          /\ error' = IF got.threw THEN getErrorMessage(got.error) ELSE error
          /\ post' = [post EXCEPT !.status = "done", !.thrown = got.error,
                                  !.moved = SelectionMoved]
          /\ isSubmitting' = got.threw
  /\ UNCHANGED <<pageVars, submits, lastSubmit, pureVars>>

\* The POST completes: signDocument / verifyDocument return the body or
\* rethrow what fetch or handleFetchResponse threw; the page stores the
\* result or getErrorMessage of the error, and its finally block clears the
\* in-progress flag.
PostResolve ==
  /\ post.status = "inflight"
  /\ \E response \in PostResponses :
       LET got == fetchAndHandle(response)
       IN /\ result' = IF got.threw THEN result ELSE "set"
          /\ error' = IF got.threw THEN getErrorMessage(got.error) ELSE error
          /\ post' = [post EXCEPT !.status = "done", !.thrown = got.error,
                                  !.moved = SelectionMoved]
  /\ isSubmitting' = FALSE
  /\ UNCHANGED <<pageVars, submits, lastSubmit, pureVars>>

\* The resolver on its own. The submit actions leave every variable of the
\* resolver unchanged, so its runs are the same with or without them.
Next ==
  \/ FetchAlgorithmsResolve
  \/ SelectAlgorithm
  \/ FetchCurvesResolve
  \/ SelectCurve

Spec == Init /\ [][Next]_vars

\* The whole page: the resolver together with submissions.
NextPage ==
  \/ FetchAlgorithmsResolve
  \/ SelectAlgorithmWithin(MaxPageFetches)
  \/ FetchCurvesResolve
  \/ SelectCurve
  \/ HandleSign
  \/ HandleVerify
  \/ PostResolve

SpecPage == Init /\ [][NextPage]_vars

\* The sign page with repeated submissions. Every POST in flight is
\* eventually answered or fails: the browser settles every fetch.
InitSign == Init /\ page = "sign"

NextSign ==
  \/ FetchAlgorithmsResolve
  \/ SelectAlgorithmWithin(MaxPageFetches)
  \/ FetchCurvesResolve
  \/ SelectCurve
  \/ HandleSignWithin(MaxSignSubmits)
  \/ PostResolve

SpecSign == InitSign /\ [][NextSign]_vars /\ WF_vars(PostResolve)

(***************************************************************************)
(* contexts/auth-context.tsx: the auth context.                            *)
(***************************************************************************)
\* The access token the n-th successful login of a run stores.
AccessToken(n) == "t" \o ToString(n)

\* The provider is constructed: no user, isLoading true; localStorage holds
\* no token or the token a previous session left there.
InitAuth ==
  /\ InitPage /\ page = "sign"
  /\ IdleExcept("auth")
  /\ \E stored \in {"", AccessToken(0)} :
       auth = [token |-> stored, user |-> "none", isLoading |-> TRUE,
               checkAuth |-> "start", login |-> "idle", logout |-> "idle",
               logins |-> 0]

AuthUnchanged == UNCHANGED <<pageVars, submitVars, policy, encode,
                             fingerprint, catalog, normalize, envelope>>

\* The mount effect: checkAuth up to its await. Without a token it ends at
\* once; with one it requests the profile.
CheckAuthStart ==
  /\ auth.checkAuth = "start"
  /\ auth' = IF auth.token = ""
               THEN [auth EXCEPT !.checkAuth = "done", !.isLoading = FALSE]
               ELSE [auth EXCEPT !.checkAuth = "profile"]
  /\ AuthUnchanged

\* checkAuth's getUserProfile settles: the user is set, or the token is
\* removed from localStorage; finally isLoading is cleared.
CheckAuthResolve ==
  /\ auth.checkAuth = "profile"
  /\ \E ok \in BOOLEAN :
       auth' = IF ok
                 THEN [auth EXCEPT !.checkAuth = "done", !.user = "profile",
                                   !.isLoading = FALSE]
                 ELSE [auth EXCEPT !.checkAuth = "done", !.token = "",
                                   !.isLoading = FALSE]
  /\ AuthUnchanged

\* login(username, password) up to its first await. The login form is
\* disabled only while its own submission runs.
Login ==
  /\ auth.checkAuth # "start"
  /\ auth.login = "idle" /\ auth.logout = "idle"
  /\ auth.logins < MaxLogins
  /\ auth' = [auth EXCEPT !.login = "login", !.isLoading = TRUE,
                          !.logins = @ + 1]
  /\ AuthUnchanged

\* apiService.login settles: a failure is rethrown after finally; a success
\* stores the access token and requests the profile.
LoginResolve ==
  /\ auth.login = "login"
  /\ \E ok \in BOOLEAN :
       auth' = IF ok
                 THEN [auth EXCEPT !.login = "profile",
                                   !.token = AccessToken(auth.logins)]
                 ELSE [auth EXCEPT !.login = "idle", !.isLoading = FALSE]
  /\ AuthUnchanged

\* login's getUserProfile settles: the user is set from the profile, or
\* from the login response when the profile request failed.
LoginProfileResolve ==
  /\ auth.login = "profile"
  /\ \E ok \in BOOLEAN :
       auth' = [auth EXCEPT !.login = "idle",
                           !.user = IF ok THEN "profile" ELSE "login",
                           !.isLoading = FALSE]
  /\ AuthUnchanged

\* logout() up to its await; the logout control is shown to a signed-in
\* user.
Logout ==
  /\ auth.user # "none"
  /\ auth.login = "idle" /\ auth.logout = "idle"
  /\ auth' = [auth EXCEPT !.logout = "logout", !.isLoading = TRUE]
  /\ AuthUnchanged

\* apiService.logout settles: whether it succeeded or failed, the token is
\* removed and the user cleared.
LogoutResolve ==
  /\ auth.logout = "logout"
  /\ auth' = [auth EXCEPT !.logout = "idle", !.token = "",
                          !.user = "none", !.isLoading = FALSE]
  /\ AuthUnchanged

NextAuth ==
  \/ CheckAuthStart
  \/ CheckAuthResolve
  \/ Login
  \/ LoginResolve
  \/ LoginProfileResolve
  \/ Logout
  \/ LogoutResolve

SpecAuth == InitAuth /\ [][NextAuth]_vars

(***************************************************************************)
(* The digest policy on its own: every curve name and parameter map.       *)
(***************************************************************************)
RECURSIVE NamesOf(_)
NamesOf(curveList) ==
  IF curveList = << >> THEN {}
  ELSE {Head(curveList).name} \cup NamesOf(Tail(curveList))

MockCurveNames == UNION {NamesOf(MOCK_CURVES[a]) : a \in DOMAIN MOCK_CURVES}
CurveNames ==
  DOMAIN DEFAULT_HASH_ALGORITHMS \cup MockCurveNames \cup {"brainpoolP256r1"}

InitPolicy ==
  /\ InitPage /\ page = "sign"
  /\ IdleExcept("policy")
  /\ \E n \in CurveNames, p \in ParameterMaps :
       policy = [pc |-> "input", curveName |-> n, curveParameters |-> p,
                 hashAlgorithm |-> << >>]

SelectDigest ==
  /\ policy.pc = "input"
  /\ policy' = [policy EXCEPT
                  !.pc = "done",
                  !.hashAlgorithm =
                     getHashAlgorithmForCurve(policy.curveName,
                                              policy.curveParameters)]
  /\ UNCHANGED <<pageVars, submitVars, auth, encode, fingerprint, catalog,
                 normalize, envelope>>

NextPolicy == SelectDigest

SpecPolicy == InitPolicy /\ [][NextPolicy]_vars

(***************************************************************************)
(* The catalog client on its own: one algorithm id (or none) against every *)
(* answer of the three GET endpoints, bodies with malformed entries        *)
(* included.                                                               *)
(***************************************************************************)
\* A list entry that is not an algorithm (null, {} or a string): it has no
\* id and no name.
NotAnAlgorithm == Algorithm("", "")

\* An algorithm that the server has and the built-in list has not, and the
\* server's full list.
LiveOnlyAlgorithm == Algorithm("algo-7", "DSA")
RegisteredAlgorithms == LiveAlgorithms \o <<LiveOnlyAlgorithm>>

CatalogAlgorithmsResponses ==
  AlgorithmsResponses \cup
    { AlgorithmsBody("array", RegisteredAlgorithms, FALSE, << >>, FALSE,
                     << >>),
      AlgorithmsBody("array", <<NotAnAlgorithm>>, FALSE, << >>, FALSE, << >>),
      AlgorithmsBody("object", << >>, TRUE, <<NotAnAlgorithm>>, FALSE,
                     << >>) }

\* An answer of GET /curves?algorithm_id=... from a server that does not
\* apply the filter: the curves of another algorithm.
UnfilteredFlatResponses(id) ==
  { FlatBody("array",
             RemoteFlatCurves(IF id = "algo-1" THEN "algo-3" ELSE "algo-1")) }

CatalogNets(id) ==
  UNION { { [algorithms |-> a, details |-> d, flat |-> f] :
              d \in DetailsResponses(
                      FindAlgorithm(getAlgorithms(a).result, id).name),
              f \in FlatResponses(id) \cup UnfilteredFlatResponses(id) } :
          a \in CatalogAlgorithmsResponses }

InitCatalog ==
  /\ InitPage /\ page = "sign"
  /\ IdleExcept("catalog")
  /\ \E id \in AlgorithmIds \cup {"", LiveOnlyAlgorithm.id} :
       \E net \in CatalogNets(id) :
         catalog = [pc |-> "input", algorithmId |-> id, net |-> net,
                    algorithms |-> NoCall, curves |-> NoCall,
                    name |-> NoCall, again |-> NoCall]

\* apiService.getAlgorithms() against the server's answer.
CallGetAlgorithms ==
  /\ catalog.pc = "input" /\ ~catalog.algorithms.done
  /\ LET got == getAlgorithms(catalog.net.algorithms)
     IN catalog' = [catalog EXCEPT
                      !.algorithms = [done |-> TRUE, threw |-> got.threw,
                                      result |-> got.result,
                                      fallback |-> got.fallback,
                                      logs |-> got.logs]]
  /\ UNCHANGED <<pageVars, submitVars, auth, policy, encode, fingerprint,
                 normalize, envelope>>

\* apiService.getCurves(algorithmId) against the server's answers.
CallGetCurves ==
  /\ catalog.pc = "input" /\ ~catalog.curves.done
  /\ LET got == getCurves(catalog.algorithmId, catalog.net)
     IN catalog' = [catalog EXCEPT
                      !.curves = [done |-> TRUE, threw |-> got.threw,
                                  curves |-> got.curves,
                                  source |-> got.source,
                                  logs |-> got.logs]]
  /\ UNCHANGED <<pageVars, submitVars, auth, policy, encode, fingerprint,
                 normalize, envelope>>

\* The algorithm-name lookup at the head of verifyDocument.
CallVerifyLookup ==
  /\ catalog.pc = "input" /\ ~catalog.name.done
  /\ LET got == verifyAlgorithmName(catalog.net.algorithms,
                                    catalog.algorithmId)
     IN catalog' = [catalog EXCEPT
                      !.name = [done |-> TRUE, threw |-> got.threw,
                                name |-> got.name]]
  /\ UNCHANGED <<pageVars, submitVars, auth, policy, encode, fingerprint,
                 normalize, envelope>>

\* A later getAlgorithms() and getCurves(algorithmId) of the same session:
\* each call fetches again, against whatever the network answers by then.
ReadAgain ==
  /\ catalog.pc = "input"
  /\ catalog.algorithms.done /\ catalog.curves.done /\ ~catalog.again.done
  /\ \E net \in CatalogNets(catalog.algorithmId) :
       catalog' = [catalog EXCEPT
                     !.again =
                       [done |-> TRUE,
                        algorithms |-> getAlgorithms(net.algorithms).result,
                        curves |->
                          getCurves(catalog.algorithmId, net).curves]]
  /\ UNCHANGED <<pageVars, submitVars, auth, policy, encode, fingerprint,
                 normalize, envelope>>

NextCatalog ==
  CallGetAlgorithms \/ CallGetCurves \/ CallVerifyLookup \/ ReadAgain

SpecCatalog == InitCatalog /\ [][NextCatalog]_vars

(***************************************************************************)
(* The error normalizer on its own: one response through fetch and         *)
(* handleFetchResponse, then the thrown error through getErrorMessage.     *)
(***************************************************************************)
InitNormalize ==
  /\ InitPage /\ page = "sign"
  /\ IdleExcept("normalize")
  /\ \E r \in Responses :
       normalize = [pc |-> "input", response |-> r, error |-> NoError,
                    text |-> ""]

Normalize ==
  /\ normalize.pc = "input"
  /\ LET got == fetchAndHandle(normalize.response)
     IN normalize' = [normalize EXCEPT
                        !.pc = IF got.threw THEN "thrown" ELSE "returned",
                        !.error = got.error]
  /\ UNCHANGED <<pageVars, submitVars, auth, policy, encode, fingerprint,
                 catalog, envelope>>

\* The catch block of a page: setError(getErrorMessage(err)).
Describe ==
  /\ normalize.pc = "thrown"
  /\ normalize' = [normalize EXCEPT
                     !.pc = "described",
                     !.text = getErrorMessage(normalize.error)]
  /\ UNCHANGED <<pageVars, submitVars, auth, policy, encode, fingerprint,
                 catalog, envelope>>

NextNormalize == Normalize \/ Describe

SpecNormalize == InitNormalize /\ [][NextNormalize]_vars

(***************************************************************************)
(* The verify envelope on its own: one body of a successful POST /verify   *)
(* through the tail of verifyDocument, then through handleVerify.          *)
(***************************************************************************)
InitEnvelope ==
  /\ InitPage /\ page = "verify"
  /\ IdleExcept("envelope")
  /\ \E data \in VerifyBodies :
       envelope = [pc |-> "input", data |-> data, hashedDocument |-> "77",
                   publicKey |-> "pub1", curveName |-> "P-256",
                   response |-> NoVerifyData,
                   shown |-> NoVerificationResult]

Reconcile ==
  /\ envelope.pc = "input"
  /\ envelope' = [envelope EXCEPT
                    !.pc = "returned",
                    !.response = reconcileVerify(envelope.data,
                                                 envelope.hashedDocument,
                                                 envelope.publicKey,
                                                 envelope.curveName)]
  /\ UNCHANGED <<pageVars, submitVars, auth, policy, encode, fingerprint,
                 catalog, normalize>>

Surface ==
  /\ envelope.pc = "returned"
  /\ envelope' = [envelope EXCEPT
                    !.pc = "shown",
                    !.shown = verificationResultOf(envelope.response)]
  /\ UNCHANGED <<pageVars, submitVars, auth, policy, encode, fingerprint,
                 catalog, normalize>>

NextEnvelope == Reconcile \/ Surface

SpecEnvelope == InitEnvelope /\ [][NextEnvelope]_vars

(***************************************************************************)
(* The fingerprint of one document under one curve, as signDocument and as *)
(* verifyDocument compute it, each on a platform of its own.               *)
(***************************************************************************)
InitFingerprint ==
  /\ InitPage /\ page = "sign"
  /\ IdleExcept("fingerprint")
  /\ \E d \in Documents, n \in CurveNames :
       fingerprint = [pc |-> "input", document |-> d, curveName |-> n,
                      sign |-> NoFingerprint, verify |-> NoFingerprint]

Computed(hash) ==
  [done |-> TRUE, ok |-> hash.ok, hashAlgorithm |-> hash.hashAlgorithm,
   value |-> hash.value]

SignComputes ==
  /\ fingerprint.pc = "input" /\ ~fingerprint.sign.done
  /\ \E platform \in Platforms :
       fingerprint' =
         [fingerprint EXCEPT
            !.sign = Computed(signFingerprint(fingerprint.document,
                                              fingerprint.curveName,
                                              platform))]
  /\ UNCHANGED <<pageVars, submitVars, auth, policy, encode, catalog,
                 normalize, envelope>>

VerifyComputes ==
  /\ fingerprint.pc = "input" /\ ~fingerprint.verify.done
  /\ \E platform \in Platforms :
       fingerprint' =
         [fingerprint EXCEPT
            !.verify = Computed(verifyFingerprint(fingerprint.document,
                                                  fingerprint.curveName,
                                                  platform))]
  /\ UNCHANGED <<pageVars, submitVars, auth, policy, encode, catalog,
                 normalize, envelope>>

NextFingerprint == SignComputes \/ VerifyComputes

SpecFingerprint == InitFingerprint /\ [][NextFingerprint]_vars

(***************************************************************************)
(* The fingerprint encoding on its own: every buffer up to MaxDigestLen.   *)
(***************************************************************************)
InitEncode ==
  /\ InitPage /\ page = "sign"
  /\ IdleExcept("encode")
  /\ \E b \in Buffers :
       encode = [pc |-> "input", buffer |-> b, decimal |-> << >>]

EncodeDigest ==
  /\ encode.pc = "input"
  /\ encode' = [encode EXCEPT !.pc = "done",
                              !.decimal = hashToDecimalString(encode.buffer)]
  /\ UNCHANGED <<pageVars, submitVars, auth, policy, fingerprint, catalog,
                 normalize, envelope>>

NextEncode == EncodeDigest

SpecEncode == InitEncode /\ [][NextEncode]_vars

(***************************************************************************)
(* Vocabulary of the properties.                                           *)
(***************************************************************************)
IsIssue(e) == e.type = "issue"
\* The algorithm ids of the curve fetches, in the order they were issued.
IssuedAlgorithms ==
  LET issued == SelectSeq(events, IsIssue)
  IN [i \in 1..Len(issued) |-> issued[i].algorithmId]
\* The position in the run at which fetch id resolved, 0 while it is pending.
ResolvePos(id) ==
  LET hits == {k \in 1..Len(events) :
                 events[k].type = "resolve" /\ events[k].id = id}
  IN IF hits = {} THEN 0 ELSE CHOOSE k \in hits : TRUE
\* Every curve name the catalog (remote or built-in) holds for an algorithm.
CurveNamesOf(id) == UNION {NamesOf(o.curves) : o \in GetCurvesOutcomes[id]}
BelongTo(curveList, id) ==
  \A i \in 1..Len(curveList) : curveList[i].algorithm_id = id
NoneDisabled(curveList) ==
  \A i \in 1..Len(curveList) : curveList[i].status # "disabled"
\* The canonical digest name a hint denotes, in either spelling.
CanonicalDigest(h) ==
  CASE h \in {SHA256, <<"S", "H", "A", "2", "5", "6">>} -> SHA256
    [] h \in {SHA384, <<"S", "H", "A", "3", "8", "4">>} -> SHA384
    [] h \in {SHA512, <<"S", "H", "A", "5", "1", "2">>} -> SHA512
    [] OTHER -> h
HasHint(p) == p.defined /\ p.hash_algorithm # NoHint

(***************************************************************************)
(* C1. A curve response issued for algorithm X changes the curve list and  *)
(* the curve selection only if X is the selected algorithm at the moment   *)
(* the response resolves: a stale response is discarded.                   *)
(***************************************************************************)
C1_StaleResponseDiscarded ==
  [][\A f \in inflight :
       (f \notin inflight' /\ f.algorithmId # algorithmId)
         => (curves' = curves /\ curveName' = curveName)]_vars

(***************************************************************************)
(* C2. Selections A, B, A with B's fetch resolving after A's second fetch: *)
(* once every fetch has resolved, the displayed curve list and the         *)
(* selected curve belong to A.                                             *)
(***************************************************************************)
C2_FinalListBelongsToA ==
  \A a \in AlgorithmIds, b \in AlgorithmIds :
    (/\ a # b
     /\ IssuedAlgorithms = <<a, b, a>>
     /\ inflight = {}
     /\ ResolvePos(2) > ResolvePos(3))
      => /\ BelongTo(curves, a)
         /\ curveName \in CurveNamesOf(a) \cup {""}

(***************************************************************************)
(* C3. RSA is selected, then EdDSA before the RSA fetch returns (no RSA    *)
(* curves were on display before): from then on no RSA curve is in the     *)
(* curve list or selected, and once the fetches have resolved the resolver *)
(* is ready with EdDSA curves only.                                        *)
(***************************************************************************)
C3_NeverShowsRsaCurve ==
  \A i \in 1..Len(events), j \in 1..Len(events) :
    (/\ i < j
     /\ IsIssue(events[i]) /\ events[i].algorithmId = "algo-2"
     /\ IsIssue(events[j]) /\ events[j].algorithmId = "algo-3"
     /\ \A k \in (i + 1)..Len(events) : IsIssue(events[k]) => k = j
     /\ \A k \in 1..(j - 1) :
          ~(events[k].type = "resolve" /\ events[k].algorithmId = "algo-2"))
      => /\ \A c \in 1..Len(curves) : curves[c].algorithm_id # "algo-2"
         /\ curveName \notin CurveNamesOf("algo-2")
         /\ inflight = {} =>
              /\ algorithmId = "algo-3" /\ ~isLoadingCurves
              /\ BelongTo(curves, "algo-3")

(***************************************************************************)
(* C4. No result returned by getCurves contains a disabled curve,          *)
(* whichever source produced it (nested, flat or built-in).                *)
(***************************************************************************)
C4_NoDisabledCurveReturned ==
  lastGetCurves.called => NoneDisabled(lastGetCurves.curves)

(***************************************************************************)
(* C5. The resolver never offers a disabled curve as an option of the      *)
(* curve Select and never selects a disabled curve as the default when a   *)
(* curve load completes.                                                   *)
(***************************************************************************)
C5_NoDisabledDefaultOrOption ==
  /\ NoneDisabled(curves)
  /\ (Len(events) > 0 /\ events[Len(events)].type = "resolve"
        /\ ResolvedCurve.hasCurve)
       => \A i \in 1..Len(curves) :
            curves[i].name = curveName => curves[i].status # "disabled"

(***************************************************************************)
(* C6. A sign or verify submitted with a curve whose catalog entry carries *)
(* a digest hint hashes the document with the hinted digest algorithm.     *)
(***************************************************************************)
C6_HintOfResolvedCurveUsed ==
  (lastSubmit.done /\ lastSubmit.hasCurve
     /\ HasHint(lastSubmit.curveParameters))
    => lastSubmit.hashAlgorithm
         = CanonicalDigest(lastSubmit.curveParameters.hash_algorithm)

(***************************************************************************)
(* C7. getHashAlgorithmForCurve resolves in the order: the hint of the     *)
(* curve parameters, translated to the canonical digest name; otherwise    *)
(* the static table entry of the curve name; otherwise SHA-256.            *)
(***************************************************************************)
C7_ResolutionOrder ==
  policy.pc = "done" =>
    policy.hashAlgorithm =
      IF HasHint(policy.curveParameters)
        THEN CanonicalDigest(policy.curveParameters.hash_algorithm)
      ELSE IF policy.curveName \in DOMAIN DEFAULT_HASH_ALGORITHMS
        THEN DEFAULT_HASH_ALGORITHMS[policy.curveName]
      ELSE SHA256

(***************************************************************************)
(* C8. Without a hint, the digest of every curve name of the built-in      *)
(* catalog, as that catalog spells it, is: secp256k1 and P-256 -> SHA-256, *)
(* P-384 -> SHA-384, P-521 -> SHA-512, Ed25519 -> SHA-512, RSA-2048,       *)
(* RSA-3072 and RSA-4096 -> SHA-256.                                       *)
(***************************************************************************)
ExpectedDigest(name) ==
  CASE name = "P-384" -> SHA384
    [] name \in {"P-521", "Ed25519"} -> SHA512
    [] OTHER -> SHA256

C8_TableCoversBuiltInCatalog ==
  (policy.pc = "done" /\ ~HasHint(policy.curveParameters)
     /\ policy.curveName \in MockCurveNames)
    => policy.hashAlgorithm = ExpectedDigest(policy.curveName)

(***************************************************************************)
(* Decimal strings and big-endian integers, independently of the code.     *)
(***************************************************************************)
DecimalDigits == <<"0", "1", "2", "3", "4", "5", "6", "7", "8", "9">>
DigitValue(c) == (CHOOSE k \in 1..10 : DecimalDigits[k] = c) - 1
\* An unsigned base-10 numeral: digits only, no sign, no leading zero.
IsUnsignedDecimal(str) ==
  /\ Len(str) >= 1
  /\ \A k \in 1..Len(str) : \E d \in 1..10 : DecimalDigits[d] = str[k]
  /\ Len(str) > 1 => str[1] # "0"
RECURSIVE DecimalValue(_)
DecimalValue(str) ==
  IF str = << >> THEN 0
  ELSE DecimalValue(SubSeq(str, 1, Len(str) - 1)) * 10
         + DigitValue(str[Len(str)])
RECURSIVE Pow256(_)
Pow256(n) == IF n = 0 THEN 1 ELSE 256 * Pow256(n - 1)
\* The sum of b[i] * 256^(n-i) over the bytes b[1..n].
RECURSIVE BigEndianValue(_)
BigEndianValue(bytes) ==
  IF bytes = << >> THEN 0
  ELSE Head(bytes) * Pow256(Len(bytes) - 1) + BigEndianValue(Tail(bytes))
\* The n bytes of v, most significant first.
BigEndianBytes(v, n) == [k \in 1..n |-> (v \div Pow256(n - k)) % 256]

(***************************************************************************)
(* C9. The fingerprint is the digest read as an unsigned big-endian        *)
(* integer and written in base 10: for bytes b[1..n] the decimal string is *)
(* an unsigned numeral whose value is the sum of b[i] * 256^(n-i).         *)
(***************************************************************************)
C9_UnsignedBigEndianDecimal ==
  encode.pc = "done" =>
    /\ IsUnsignedDecimal(encode.decimal)
    /\ DecimalValue(encode.decimal) = BigEndianValue(encode.buffer)

\* The digest 01 00 has been encoded, as "256".
C9_Witness ==
  /\ encode.pc = "done"
  /\ encode.buffer = <<1, 0>>
  /\ encode.decimal = <<"2", "5", "6">>

(***************************************************************************)
(* C10. Round trip: decoding the decimal fingerprint back to n big-endian  *)
(* bytes, n the digest length, gives the original digest bytes, leading    *)
(* zero bytes included.                                                    *)
(***************************************************************************)
C10_RoundTrip ==
  encode.pc = "done" =>
    BigEndianBytes(DecimalValue(encode.decimal), Len(encode.buffer))
      = encode.buffer

\* A digest with a leading zero byte, 00 ff, has been encoded, as "255".
C10_Witness ==
  /\ encode.pc = "done"
  /\ encode.buffer = <<0, 255>>
  /\ encode.decimal = <<"2", "5", "5">>

(***************************************************************************)
(* C11: if the digest chosen for a sign or verify call is not supported by *)
(* the platform digest provider, the call fails and has made no network    *)
(* request of any kind: no catalog lookup and no sign/verify submission.   *)
(***************************************************************************)
C11_NoRequestOnDigestFailure ==
  (lastSubmit.done /\ ~lastSubmit.hashOk) =>
    /\ error # ""
    /\ post = NoPost
    /\ lastSubmit.requests = << >>

(***************************************************************************)
(* C12: the fingerprint is a function of the document and the curve alone: *)
(* whenever sign and verify have both computed it for the same document    *)
(* and curve, they chose the same digest and got the same decimal string,  *)
(* which is the encoding of that digest of that document.                  *)
(***************************************************************************)
C12_SignAndVerifyAgree ==
  LET s == fingerprint.sign
      v == fingerprint.verify
  IN (s.done /\ s.ok /\ v.done /\ v.ok) =>
       /\ s.hashAlgorithm = v.hashAlgorithm
       /\ s.value = v.value
       /\ s.value = hashToDecimalString(DigestBytes(s.hashAlgorithm,
                                                    fingerprint.document))

C12_Witness ==
  /\ fingerprint.curveName = "P-384"
  /\ fingerprint.sign.done /\ fingerprint.sign.ok
  /\ fingerprint.verify.done /\ fingerprint.verify.ok
  /\ fingerprint.sign.hashAlgorithm = SHA384
  /\ fingerprint.verify.value = fingerprint.sign.value
  /\ fingerprint.sign.value # << >>

(***************************************************************************)
(* Vocabulary of the catalog claims: the three shapes of a GET /algorithms *)
(* body, and whether a request of a getCurves call failed.                 *)
(***************************************************************************)
ShapeArray(resp) == IF resp.kind = "array" THEN resp.array ELSE << >>
ShapeItems(resp) ==
  IF resp.kind = "object" /\ resp.hasItems THEN resp.items ELSE << >>
ShapeAlgorithms(resp) ==
  IF resp.kind = "object" /\ resp.hasAlgorithms THEN resp.algorithms
  ELSE << >>
FirstNonEmptyShape(resp) ==
  IF ShapeArray(resp) # << >> THEN ShapeArray(resp)
  ELSE IF ShapeItems(resp) # << >> THEN ShapeItems(resp)
  ELSE ShapeAlgorithms(resp)

(***************************************************************************)
(* C13: getAlgorithms tries the shapes bare array, {items}, {algorithms}   *)
(* in that order and returns the first that is a non-empty array; a body   *)
(* with an empty earlier shape and a non-empty later one yields the later  *)
(* shape's list, not the built-in list.                                    *)
(***************************************************************************)
C13_FirstNonEmptyShapeWins ==
  LET resp == catalog.net.algorithms
  IN (catalog.algorithms.done /\ resp.kind # "fail"
        /\ FirstNonEmptyShape(resp) # << >>) =>
       catalog.algorithms.result = FirstNonEmptyShape(resp)

(***************************************************************************)
(* C14: getAlgorithms never throws and never returns an empty list; when   *)
(* the request fails or every shape of the body is empty it returns the    *)
(* built-in list.                                                          *)
(***************************************************************************)
C14_NeverFailsNeverEmpty ==
  LET resp == catalog.net.algorithms
  IN catalog.algorithms.done =>
       /\ ~catalog.algorithms.threw
       /\ Len(catalog.algorithms.result) > 0
       /\ (resp.kind = "fail" \/ FirstNonEmptyShape(resp) = << >>) =>
            catalog.algorithms.result = MOCK_ALGORITHMS

C14_Witness ==
  /\ catalog.algorithms.done
  /\ catalog.net.algorithms.kind = "fail"
  /\ catalog.algorithms.fallback
  /\ catalog.algorithms.result = MOCK_ALGORITHMS

(***************************************************************************)
(* C15: getCurves never returns an empty result when network access fails, *)
(* whether it is called with an algorithm id of the catalog or with none.  *)
(***************************************************************************)
NetworkDown(net) ==
  /\ net.algorithms.kind = "fail"
  /\ net.details.kind = "fail"
  /\ net.flat.kind = "fail"

C15_NonEmptyWhenNetworkDown ==
  (catalog.curves.done /\ NetworkDown(catalog.net)) =>
    Len(catalog.curves.curves) > 0

(***************************************************************************)
(* C16: getCurves(algorithmId) prefers its sources strictly: the nested    *)
(* curves whenever the per-algorithm detail lookup succeeded, the flat     *)
(* endpoint only if the nested lookup failed, the built-in table only if   *)
(* both remote calls failed. A detail body without a curves array and a    *)
(* flat body that is no list count as failed lookups here.                 *)
(***************************************************************************)
NestedSucceeded ==
  /\ FindAlgorithm(getAlgorithms(catalog.net.algorithms).result,
                   catalog.algorithmId).name # ""
  /\ catalog.net.details.kind = "curves"
FlatSucceeded == catalog.net.flat.kind \in {"object", "array"}

C16_StrictSourceOrder ==
  (catalog.curves.done /\ catalog.algorithmId # "") =>
    /\ NestedSucceeded => catalog.curves.source = "nested"
    /\ catalog.curves.source = "flat" => ~NestedSucceeded
    /\ catalog.curves.source = "mock" =>
         (~NestedSucceeded /\ ~FlatSucceeded)

(***************************************************************************)
(* C17: catalog lookups never propagate an error: getAlgorithms, getCurves *)
(* and the name lookup of verifyDocument end without an exception, the     *)
(* lookup with a name, for every combination of failed requests and        *)
(* malformed bodies.                                                       *)
(***************************************************************************)
C17_CatalogNeverThrows ==
  /\ catalog.algorithms.done => ~catalog.algorithms.threw
  /\ catalog.curves.done => ~catalog.curves.threw
  /\ catalog.name.done => (~catalog.name.threw /\ catalog.name.name # "")

C17_Witness ==
  /\ NetworkDown(catalog.net)
  /\ catalog.algorithmId = "algo-2"
  /\ catalog.algorithms.done /\ catalog.curves.done /\ catalog.name.done
  /\ catalog.curves.source = "mock"
  /\ catalog.name.name = "RSA"

(***************************************************************************)
(* C18: a non-2xx response whose body is not JSON normalizes to an         *)
(* ApiError that carries the response status and the message               *)
(* "API error: <status>".                                                  *)
(***************************************************************************)
C18_UnparsableBodyMessage ==
  (/\ normalize.pc \in {"thrown", "described"}
   /\ normalize.response.transport = "ok"
   /\ normalize.response.status \notin 200..299
   /\ normalize.response.body.kind = "unparsable") =>
    /\ normalize.error.type = "ApiError"
    /\ normalize.error.status = normalize.response.status
    /\ normalize.error.message
         = "API error: " \o ToString(normalize.response.status)

(***************************************************************************)
(* C19: the normalizer maps status codes to a fixed taxonomy: 400 and 422  *)
(* to a validation error that shows the server's message when there is     *)
(* one, 401 to authentication-required, 403 to forbidden, 404 to           *)
(* not-found, 429 to rate-limited and every status of 500..599 to the one  *)
(* transient-server-error class.                                           *)
(***************************************************************************)
C19_FixedTaxonomy ==
  LET st == normalize.error.status
      body == normalize.response.body
      served == body.kind = "object" /\ body.hasMessage /\ body.message # ""
      text == normalize.text
  IN (normalize.pc = "described" /\ normalize.error.type = "ApiError") =>
       /\ (st \in {400, 422} /\ served) => text = body.message
       /\ (st = 400 /\ body.kind = "object" /\ ~served) =>
            text = "Invalid request. Please check your input."
       /\ (st = 422 /\ body.kind = "object" /\ ~served) =>
            text = "Validation failed. Please check your input."
       /\ st = 401 => text = "Authentication required. Please log in."
       /\ st = 403 =>
            text = "You do not have permission to perform this action."
       /\ st = 404 => text = "The requested resource was not found."
       /\ st = 429 => text = "Too many requests. Please try again later."
       /\ st \in 500..599 => text = "Server error. Please try again later."

(***************************************************************************)
(* C20: every network or normalization failure of a sign or verify call    *)
(* reaches the caller as one ApiError with a message and a status code,    *)
(* transport failures and 2xx responses with a body that is not JSON       *)
(* included; none is swallowed and none surfaces as another error type.    *)
(***************************************************************************)
C20_EveryFailureIsApiError ==
  (post.status = "done" /\ result = "none") =>
    /\ post.thrown.type = "ApiError"
    /\ post.thrown.message # ""
    /\ post.thrown.status \in 100..599
    /\ error # ""

(***************************************************************************)
(* C21: a verify response in the legacy envelope (no verification field,   *)
(* an is_valid field, flat fields) normalizes to the canonical result with *)
(* isValid = is_valid, documentFingerprint = document_hash (the locally    *)
(* computed fingerprint when document_hash is absent or empty),            *)
(* verificationId = verification_id, verificationTime = verification_time, *)
(* bitSize = 256, publicKey and curveName from the request. The page shows *)
(* these values; where the server gave no verification_time it shows the   *)
(* time of display.                                                        *)
(***************************************************************************)
IsLegacy(data) == data.verification = Absent /\ data.is_valid # Absent

C22_CanonicalFieldPreferred ==
  LET data == envelope.data
  IN envelope.pc \in {"returned", "shown"} =>
       /\ data.verification # Absent => envelope.response = data
       /\ envelope.response # data => IsLegacy(data)
       /\ (envelope.pc = "shown" /\ envelope.shown.set
             /\ data.verification # Absent) =>
            envelope.shown.isValid = data.verification

C22_Witness ==
  /\ envelope.pc = "shown"
  /\ envelope.data.verification = "true"
  /\ envelope.data.is_valid = "false"
  /\ envelope.shown.set /\ envelope.shown.isValid = "true"

(***************************************************************************)
(* C23: the algorithm_name that verify submits is the name of the          *)
(* algorithm whose id is the given algorithmId, from the catalog or, when  *)
(* the lookup fails or lacks the id, from the built-in table: never the    *)
(* name of another algorithm.                                              *)
(***************************************************************************)
C23_SubmitsNameOfGivenAlgorithm ==
  (catalog.name.done /\ catalog.algorithmId # "") =>
    catalog.name.name
      = FindAlgorithm(RegisteredAlgorithms, catalog.algorithmId).name

(***************************************************************************)
(* C24: one invocation of sign sends at most one POST to /sign and one     *)
(* invocation of verify at most one POST to /verify, whether the POST      *)
(* succeeds, is answered with a non-2xx status or fails in transport; the  *)
(* number of POSTs sent grows only in a step that is a new submission.     *)
(***************************************************************************)
PostsOf(requests) ==
  Cardinality({i \in 1..Len(requests) : requests[i] \in {"/sign", "/verify"}})

C24_NoAutomaticRetry ==
  /\ [](post.sent <= 1 /\ PostsOf(lastSubmit.requests) <= 1)
  /\ [][post'.sent > post.sent => submits' = submits + 1]_vars

\* A POST that failed (transport failure or non-2xx) has completed and the
\* failure has reached the page.
C24_Witness ==
  /\ post.status = "done"
  /\ post.thrown.type # "none"
  /\ post.sent = 1
  /\ error # ""

C26_PrivateKeyNeverSent ==
  post.endpoint = "/sign" => post.private_key \notin PrivateKeys

(***************************************************************************)
(* C27: selecting another algorithm clears the curve selection at once,    *)
(* and the selection stays unset in every state from the selection change  *)
(* until the curves of the newly selected algorithm arrive, that is, while *)
(* the fetch issued for the current algorithm is still in flight.          *)
(***************************************************************************)
LatestFetch == [id |-> nextFetch - 1, algorithmId |-> algorithmId]

C27_CurveUnsetUntilNewCurvesArrive ==
  LatestFetch \in inflight => curveName = ""

(***************************************************************************)
(* C28: when a curve load succeeds, the first curve of the list becomes    *)
(* the selection only if the list is non-empty and no curve of that list   *)
(* is selected (a selected curve of that list is kept); if the list is     *)
(* empty the curve selection is unset afterwards.                          *)
(***************************************************************************)
CurveLoadCompletes == inflight' # inflight /\ inflight' \subseteq inflight

C28_DefaultOnlyWhenNoneSelected ==
  [][CurveLoadCompletes =>
       curveName' = IF curves' = << >> THEN ""
                    ELSE IF curveName \in NamesOf(curves') THEN curveName
                    ELSE curves'[1].name]_vars

(***************************************************************************)
(* C29: once getAlgorithms, or getCurves for an algorithm id, has produced *)
(* a result in a session, every later read of the same key yields the same *)
(* result, whatever the network answers in between.                        *)
(***************************************************************************)
C29_LaterReadsAgree ==
  catalog.again.done =>
    /\ catalog.again.algorithms = catalog.algorithms.result
    /\ catalog.again.curves = catalog.curves.curves

(***************************************************************************)
(* C30: fallback data is told apart from live data by a log line: every    *)
(* return of the built-in algorithm list by getAlgorithms comes with a     *)
(* 'Using mock algorithm data' line and every return of built-in curves by *)
(* getCurves with a 'Using mock curve data' line, and a return of live     *)
(* data comes with no such line of that call.                              *)
(***************************************************************************)
C30_FallbackIsLogged ==
  /\ catalog.algorithms.done =>
       (catalog.algorithms.fallback
          <=> AlgorithmFallbackLog \in catalog.algorithms.logs)
  /\ catalog.curves.done =>
       (catalog.curves.source = "mock"
          <=> CurveFallbackLog \in catalog.curves.logs)

\* Both calls have returned built-in data, and both log lines are there.
C30_Witness ==
  /\ catalog.algorithms.done /\ catalog.algorithms.fallback
  /\ catalog.algorithms.result = MOCK_ALGORITHMS
  /\ catalog.curves.done /\ catalog.curves.source = "mock"
  /\ catalog.curves.curves = MOCK_CURVES[catalog.algorithmId]
  /\ catalog.curves.logs = {AlgorithmFallbackLog, CurveFallbackLog}

(***************************************************************************)
(* C31: in every state of the pages the selected curve name is unset or is *)
(* the name of a curve of the displayed curve list, for every interleaving *)
(* of algorithm selections and curve-fetch completions.                    *)
(***************************************************************************)
C31_SelectedCurveIsDisplayed ==
  curveName = "" \/ curveName \in NamesOf(curves)

(***************************************************************************)
(* C32: whenever sign or verify is submitted, the curve_name of the        *)
(* request is a curve that the catalog lists for the algorithm selected at *)
(* the time of the submission.                                             *)
(***************************************************************************)
Submitted == submits' = submits + 1 /\ post'.status = "inflight"

C32_SubmittedCurveBelongsToAlgorithm ==
  [][Submitted => post'.curve_name \in CurveNamesOf(algorithmId)]_vars

(***************************************************************************)
(* C33: the curves-loading flag is true in every state in which at least   *)
(* one curve fetch is in flight: a fetch that completes while a later one  *)
(* is still in flight does not clear the flag.                             *)
(***************************************************************************)
C33_LoadingWhileAnyFetchInFlight ==
  inflight # {} => isLoadingCurves

(***************************************************************************)
(* C34: every curve that getCurves(algorithmId) returns references that    *)
(* algorithm (its algorithm_id is the id asked for), whichever source      *)
(* produced the list and whatever the flat endpoint answers.               *)
(***************************************************************************)
C34_ReturnedCurvesReferenceAlgorithm ==
  (catalog.curves.done /\ catalog.algorithmId # "") =>
    BelongTo(catalog.curves.curves, catalog.algorithmId)

(***************************************************************************)
(* C35: every successful return of verifyDocument is a canonical result:   *)
(* it has a boolean verification flag and a meta_data record, for every    *)
(* 2xx body, be it canonical, legacy, or without verification and          *)
(* is_valid.                                                               *)
(***************************************************************************)
C35_ReturnIsCanonical ==
  envelope.pc \in {"returned", "shown"} =>
    /\ envelope.response.verification \in {"true", "false"}
    /\ envelope.response.meta_data.present

(***************************************************************************)
(* C36: the translation of a digest hint yields a canonical digest name    *)
(* (SHA-256, SHA-384 or SHA-512 for a hint that names it in either         *)
(* spelling) and is idempotent: a hint that is already a canonical name is *)
(* returned unchanged.                                                     *)
(***************************************************************************)
CanonicalNames == {SHA256, SHA384, SHA512}

C36_HintTranslationIdempotent ==
  (policy.pc = "done" /\ HasHint(policy.curveParameters)) =>
    /\ policy.hashAlgorithm \in CanonicalNames
    /\ policy.curveParameters.hash_algorithm \in CanonicalNames
         => policy.hashAlgorithm = policy.curveParameters.hash_algorithm

(***************************************************************************)
(* C37: the raw document never leaves the client: the document field of    *)
(* every request to the sign and verify endpoints is the decimal           *)
(* fingerprint string computed from the submitted document, and a request  *)
(* is sent only after the fingerprint was computed successfully.           *)
(***************************************************************************)
C37_OnlyFingerprintIsSent ==
  post.status # "none" =>
    /\ lastSubmit.hashOk
    /\ IsUnsignedDecimal(post.document)
    /\ post.document =
         hashToDecimalString(DigestBytes(lastSubmit.hashAlgorithm,
                                         lastSubmit.document))

\* A sign request for the document "hello" is in flight.
C37_Witness ==
  /\ post.status = "inflight"
  /\ post.endpoint = "/sign"
  /\ lastSubmit.document = "hello"
  /\ Len(post.document) > 0

(***************************************************************************)
(* C38: if every issued request eventually resolves or fails, every sign   *)
(* submission eventually completes: the signing-in-progress flag returns   *)
(* to false with exactly one of the sign result and the error message set; *)
(* and a new submission first clears the previous result and error.        *)
(***************************************************************************)
SignCompleted ==
  /\ ~isSubmitting
  /\ post.status # "inflight"
  /\ (result = "set") # (error # "")

C38_SignEventuallyCompletes ==
  /\ (lastSubmit.done /\ isSubmitting) ~> SignCompleted
  /\ [](lastSubmit.done /\ ~isSubmitting => SignCompleted)
  /\ [][post'.status = "inflight" /\ post.status # "inflight"
          => result' = "none" /\ error' = ""]_vars

\* A second submission has completed with a result; the first one had left
\* a result or an error message behind.
C38_Witness ==
  /\ submits = 2
  /\ SignCompleted
  /\ result = "set"

(***************************************************************************)
(* C39: in every state of the auth context a non-null user implies that an *)
(* access token is stored, for every interleaving of the mount-time auth   *)
(* check, login and logout: the token is never removed while the user      *)
(* remains set.                                                            *)
(***************************************************************************)
C39_UserImpliesToken ==
  auth.user # "none" => auth.token # ""

====
